---- MODULE Spec2Model ----
(***************************************************************************)
(* Sidebar bookmark extension: the Sidebar controller (content script,     *)
(* entrypoints/content.tsx) and the storage service (background script).   *)
(*                                                                         *)
(* Strings are sequences of one-character strings, so that trimming and    *)
(* URL parsing are computed and not assumed.  Indices of the working list  *)
(* are 0-based as in the source; the element at index i is userLinks[i+1]. *)
(***************************************************************************)
EXTENDS Integers, Sequences, FiniteSets, TLC

(* ------------------------------ bounds --------------------------------- *)
\* longest working list the model builds
MaxLinks == 3
\* most save-user-links requests in flight at once
MaxInFlight == 2
\* most messages the storage service receives in one run
MaxCalls == 2
\* most times the content script's main() runs on one page
MaxRuns == 2

(* ------------------------------ strings -------------------------------- *)
Str0 == <<>>
StrSpace == <<" ">>
StrXY == <<"x", "y">>
StrX == <<"x", ":">>
StrY == <<"y", ":">>
StrZ == <<"x", "y", ":">>
\* the value of an array slot that was never written (JavaScript undefined)
Undefined == <<"<undefined>">>

\* what the user can type into the add-link input
Candidates == {Str0, StrSpace, StrXY, StrX, StrY}

IsSpace(c) == c = " "
IsAlpha(c) == c \in {"x", "y"}
IsSchemeChar(c) == IsAlpha(c) \/ c \in {"+", "-", "."}

RECURSIVE TrimStart(_)
TrimStart(s) ==
  IF s # <<>> /\ IsSpace(Head(s)) THEN TrimStart(Tail(s)) ELSE s

RECURSIVE TrimEnd(_)
TrimEnd(s) ==
  IF s # <<>> /\ IsSpace(s[Len(s)]) THEN TrimEnd(SubSeq(s, 1, Len(s) - 1)) ELSE s

\* String.prototype.trim
Trim(s) == TrimEnd(TrimStart(s))

\* new URL(url) without a base: leading and trailing spaces are stripped,
\* then a scheme (a letter, then letters, "+", "-", "."), then ":" is required;
\* whatever follows a non-special scheme parses.
UrlParses(s) ==
  LET t == Trim(s) IN
  \E k \in 2..Len(t) :
    /\ t[k] = ":"
    /\ IsAlpha(t[1])
    /\ \A j \in 2..(k - 1) : IsSchemeChar(t[j])

\* mutant: every candidate passes
isValidUrlAlways(url) == TRUE

isValidUrl(url) == UrlParses(url)

\* JavaScript truthiness of a string-or-undefined value
Truthy(s) == s # <<>> /\ s # Undefined

(* ------------------------------ sequences ------------------------------ *)
\* mutant: only the first entry is compared
IncludesFirstOnly(s, x) == s # <<>> /\ s[1] = x

\* Array.prototype.includes
Includes(s, x) == \E i \in 1..Len(s) : s[i] = x

RECURSIVE Filter(_, _)
\* Array.prototype.filter(url => url !== x)
Filter(s, x) ==
  IF s = <<>> THEN <<>>
  ELSE IF Head(s) = x THEN Filter(Tail(s), x)
       ELSE <<Head(s)>> \o Filter(Tail(s), x)

\* Array.prototype.splice(i, 1): remove the element at 0-based index i, if any
SpliceRemove(s, i) ==
  IF i >= 0 /\ i < Len(s) THEN SubSeq(s, 1, i) \o SubSeq(s, i + 2, Len(s)) ELSE s

\* Array.prototype.splice(i, 0, item): insert before 0-based index i, clamped
SpliceInsert(s, i, item) ==
  LET k == IF i > Len(s) THEN Len(s) ELSE i IN
  SubSeq(s, 1, k) \o <<item>> \o SubSeq(s, k + 1, Len(s))

\* a[i] of a JavaScript array
At(s, i) == IF i >= 0 /\ i < Len(s) THEN s[i + 1] ELSE Undefined

Count(s, x) == Cardinality({i \in 1..Len(s) : s[i] = x})

(* ------------------------------ state ---------------------------------- *)
Null == -1

VARIABLES
  userLinks,               \* working list (useState<string[]>)
  showAddLinkModal, newLinkUrl, isAddingLink, addLinkError,
  showSettingsModal, importError, importSuccess, isImporting, isDragOver,
  draggedIndex, dragOverIndex,
  contextMenu,             \* [visible, url]
  showDeleteConfirmation, urlToDelete,
  isSidebarHidden,
  loadPc, attempt, delay,  \* position of loadUserLinksWithRetry
  loadMsg,                 \* the load-user-links exchange in flight
  saveReqs,                \* save-user-links requests in flight, in issue order
  importJob,               \* processImportedFile suspended at file.text()
  linksItem,               \* storage item sync:sidebar-user-links
  savesInOrder,            \* history: every handled save succeeded, in issue order
  visibilityItem,          \* storage item sync:sidebar-visibility
  calls,                   \* onMessage handler invocations of the storage service
  svcLog,                  \* history: backend accesses and handler returns, in order
  loadLog,                 \* history: load requests sent and how each ended
  page,                    \* the document the content script is injected into
  lastOp                   \* history: the controller handler that ran last

addVars == <<showAddLinkModal, newLinkUrl, isAddingLink, addLinkError>>
settingsVars == <<showSettingsModal, importError, importSuccess, isImporting, isDragOver, importJob>>
dragVars == <<draggedIndex, dragOverIndex>>
deleteVars == <<contextMenu, showDeleteConfirmation, urlToDelete>>
loadVars == <<loadPc, attempt, delay, loadMsg, loadLog, page>>
listVars == <<userLinks, saveReqs>>
svcVars == <<visibilityItem, calls, svcLog>>
storeVars == <<linksItem, savesInOrder, visibilityItem, calls, svcLog>>

vars == <<userLinks, showAddLinkModal, newLinkUrl, isAddingLink, addLinkError,
          showSettingsModal, importError, importSuccess, isImporting, isDragOver,
          draggedIndex, dragOverIndex, contextMenu, showDeleteConfirmation,
          urlToDelete, isSidebarHidden, loadPc, attempt, delay, loadMsg,
          saveReqs, importJob, linksItem, savesInOrder, visibilityItem, calls,
          svcLog, loadLog, page, lastOp>>

NoMsg == [kind |-> "none", success |-> FALSE, hasData |-> FALSE, data |-> <<>>]
NoJob == [active |-> FALSE, closure |-> <<>>, file |-> <<>>]

\* loadUserLinksWithRetry(maxRetries = 3, delay = 500)
maxRetries == 3
InitialDelay == 500

\* mutant: an item never written reads as undefined
GetValueNoFallback(item) == IF item.present THEN item.value ELSE Undefined

\* storage.defineItem(..., {fallback: []}).getValue()
GetValue(item) == IF item.present THEN item.value ELSE <<>>

\* mutant: the new list is added to the stored one
SetValueMerging(item, data) == [present |-> TRUE, value |-> item.value \o data]

\* userLinksStorage.setValue(data)
SetValue(item, data) == [present |-> TRUE, value |-> data]

\* storage.defineItem<boolean>(..., {fallback: false}).getValue()
GetVisibility(item) == IF item.present THEN item.value ELSE FALSE

\* what earlier sessions can have left in the store
InitialItems ==
  { [present |-> FALSE, value |-> <<>>],
    [present |-> TRUE, value |-> <<StrX>>],
    [present |-> TRUE, value |-> <<StrX, StrY>>],
    [present |-> TRUE, value |-> <<StrX, StrY, StrZ>>] }

\* a page: document.readyState, whether document.body exists, the
\* DOMContentLoaded listeners registered, the initSidebar calls due (timers
\* that fired, listeners being dispatched), the #extension-sidebar-container
\* elements, the React roots rendering <Sidebar/>, the runs of main()
Page(readyState, body, listeners, due, containers, roots, runs) ==
  [readyState |-> readyState, body |-> body, listeners |-> listeners, due |-> due,
   containers |-> containers, roots |-> roots, runs |-> runs]

\* the page once the sidebar is injected
Injected == Page("complete", TRUE, 0, 0, 1, 1, 1)

\* a page the content script has not run on yet
FreshPages == {Page(r, b, 0, 0, 0, 0, 0) : r \in {"loading", "complete"}, b \in BOOLEAN}

\* the Sidebar component as React mounts it, and the store as found
InitSidebar ==
  /\ userLinks = <<>>
  /\ showAddLinkModal = FALSE /\ newLinkUrl = Str0
  /\ isAddingLink = FALSE /\ addLinkError = ""
  /\ showSettingsModal = FALSE /\ importError = "" /\ importSuccess = <<>>
  /\ isImporting = FALSE /\ isDragOver = FALSE
  /\ draggedIndex = Null /\ dragOverIndex = Null
  /\ contextMenu = [visible |-> FALSE, url |-> Str0]
  /\ showDeleteConfirmation = FALSE /\ urlToDelete = Str0
  /\ isSidebarHidden = FALSE
  /\ loadPc = "send" /\ attempt = 1 /\ delay = InitialDelay
  /\ loadMsg = NoMsg
  /\ loadLog = <<>>
  /\ saveReqs = <<>>
  /\ importJob = NoJob
  /\ linksItem \in InitialItems
  /\ savesInOrder = TRUE
  /\ visibilityItem = [present |-> FALSE, value |-> FALSE]
  /\ calls = <<>>
  /\ svcLog = <<>>
  /\ lastOp = "mount"

Init == InitSidebar /\ page = Injected

\* before the content script runs
InitPage == InitSidebar /\ page \in FreshPages

(* ------------------------ the save effect ------------------------------ *)
\* useEffect(..., [userLinks]): runs after every setUserLinks with a new array
SaveEffect(links) ==
  IF Len(links) > 0 THEN Append(saveReqs, links) ELSE saveReqs

\* setUserLinks(links) followed by the effect it triggers
SetUserLinks(links) ==
  /\ Len(links) <= MaxLinks
  /\ Len(links) > 0 => Len(saveReqs) < MaxInFlight
  /\ userLinks' = links
  /\ saveReqs' = SaveEffect(links)

\* a click outside the context menu also reaches handleClickOutside
CloseMenu(m) == [m EXCEPT !.visible = FALSE]

(* ------------------------------ load ----------------------------------- *)
SendLoad ==
  /\ loadPc = "send"
  /\ loadMsg' = [NoMsg EXCEPT !.kind = "request"]
  /\ loadPc' = "await"
  /\ loadLog' = Append(loadLog, "sent")
  /\ UNCHANGED <<page, attempt, delay, listVars, addVars, settingsVars, dragVars,
                 deleteVars, isSidebarHidden, storeVars, lastOp>>

\* background: onMessage('load-user-links')
OnLoadUserLinks ==
  /\ loadMsg.kind = "request"
  /\ \/ loadMsg' = [kind |-> "response", success |-> TRUE, hasData |-> TRUE,
                    data |-> GetValue(linksItem)]
     \/ \* getValue() throws: the catch answers {success: false, error}
        loadMsg' = [kind |-> "response", success |-> FALSE, hasData |-> FALSE,
                    data |-> <<>>]
  /\ UNCHANGED <<page, loadPc, attempt, delay, loadLog, listVars, addVars, settingsVars, dragVars,
                 deleteVars, isSidebarHidden, storeVars, lastOp>>

\* sendMessage('load-user-links') rejects (no receiver, port closed)
LoadMessagingError ==
  /\ loadMsg.kind = "request"
  /\ loadMsg' = [NoMsg EXCEPT !.kind = "throw"]
  /\ UNCHANGED <<page, loadPc, attempt, delay, loadLog, listVars, addVars, settingsVars, dragVars,
                 deleteVars, isSidebarHidden, storeVars, lastOp>>

\* sendMessage('load-user-links') resolves with a reply that carries no data
LoadNoData ==
  /\ loadMsg.kind = "request"
  /\ loadMsg' = [kind |-> "response", success |-> TRUE, hasData |-> FALSE,
                 data |-> <<>>]
  /\ UNCHANGED <<page, loadPc, attempt, delay, loadLog, listVars, addVars, settingsVars, dragVars,
                 deleteVars, isSidebarHidden, storeVars, lastOp>>

\* mutant: a reply without data counts as loaded
LoadSucceededWithoutData(m) == m.kind = "response" /\ m.success

\* response && response.success && response.data
LoadSucceeded(m) == m.kind = "response" /\ m.success /\ m.hasData

\* mutant: one attempt too many
HasNextAttemptOffByOne(a) == a <= maxRetries

\* attempt < maxRetries: another turn of the for loop follows this one
HasNextAttempt(a) == a < maxRetries

\* the continuation of loadUserLinksWithRetry after the await
LoadResume ==
  /\ loadPc = "await"
  /\ loadMsg.kind \in {"response", "throw"}
  /\ loadMsg' = NoMsg
  /\ IF LoadSucceeded(loadMsg)
       THEN /\ SetUserLinks(loadMsg.data)
            /\ loadPc' = "done"
            /\ loadLog' = Append(loadLog, "ok")
            /\ lastOp' = "load:ok"
       ELSE /\ loadPc' = IF HasNextAttempt(attempt) THEN "sleep" ELSE "exhausted"
            /\ loadLog' = Append(loadLog, "failed")
            /\ UNCHANGED listVars
            /\ lastOp' = "load:failed"
  /\ UNCHANGED <<page, attempt, delay, addVars, settingsVars, dragVars, deleteVars,
                 isSidebarHidden, storeVars>>

\* mutant: the wait doubles
NextDelayDoubled(d) == d * 2

\* delay *= 1.5
NextDelay(d) == (d * 3) \div 2

\* setTimeout(resolve, delay) fires; delay *= 1.5; attempt++
BackoffElapsed ==
  /\ loadPc = "sleep"
  /\ delay' = NextDelay(delay)
  /\ attempt' = attempt + 1
  /\ loadPc' = "send"
  /\ UNCHANGED <<page, loadMsg, loadLog, listVars, addVars, settingsVars, dragVars, deleteVars,
                 isSidebarHidden, storeVars, lastOp>>

(* ------------------------------ save ----------------------------------- *)
RemoveAt(s, i) == SubSeq(s, 1, i - 1) \o SubSeq(s, i + 1, Len(s))

\* data && Array.isArray(data): the controller only sends arrays
IsArrayPayload(data) == TRUE

\* background: onMessage('save-user-links'), setValue succeeds
OnSaveUserLinks(i) ==
  /\ i \in 1..Len(saveReqs)
  /\ IsArrayPayload(saveReqs[i])
  /\ linksItem' = SetValue(linksItem, saveReqs[i])
  /\ savesInOrder' = (savesInOrder /\ i = 1)
  /\ saveReqs' = RemoveAt(saveReqs, i)
  /\ UNCHANGED <<userLinks, svcVars, loadVars, addVars, settingsVars, dragVars, deleteVars,
                 isSidebarHidden, lastOp>>

\* mutant: the controller puts the stored list back when a save fails
OnSaveUserLinksFailRollsBack(i) ==
  /\ i \in 1..Len(saveReqs)
  /\ savesInOrder' = FALSE
  /\ saveReqs' = RemoveAt(saveReqs, i)
  /\ userLinks' = GetValue(linksItem)
  /\ UNCHANGED <<linksItem, svcVars, loadVars, addVars, settingsVars, dragVars,
                 deleteVars, isSidebarHidden, lastOp>>

\* background: onMessage('save-user-links'), setValue throws and the catch
\* answers {success: false, error}; saveUserLinks logs it and returns
OnSaveUserLinksFail(i) ==
  /\ i \in 1..Len(saveReqs)
  /\ savesInOrder' = FALSE
  /\ saveReqs' = RemoveAt(saveReqs, i)
  /\ UNCHANGED <<userLinks, linksItem, svcVars, loadVars, addVars, settingsVars, dragVars,
                 deleteVars, isSidebarHidden, lastOp>>

(* ------------------------- what the user can reach ---------------------- *)
\* if (isSidebarHidden) return <show button only>
MainView == ~isSidebarHidden
\* the delete confirmation is a full-screen overlay above everything else
Unobstructed == MainView /\ ~showDeleteConfirmation
\* the user attends to one flow at a time: a new flow is opened only when no
\* modal, dialog or icon drag is open (an open context menu is closed by the
\* click that opens the new flow, so no menu is visible inside a modal)
UserIdle ==
  /\ Unobstructed
  /\ ~showAddLinkModal /\ ~showSettingsModal
  /\ draggedIndex = Null

(* ------------------------------ add ------------------------------------ *)
\* the + button: onClick={() => setShowAddLinkModal(true)}
OpenAddLinkModal ==
  /\ UserIdle
  /\ showAddLinkModal' = TRUE
  /\ contextMenu' = CloseMenu(contextMenu)
  /\ lastOp' = "openAdd"
  /\ UNCHANGED <<newLinkUrl, isAddingLink, addLinkError, listVars, loadVars,
                 settingsVars, dragVars, showDeleteConfirmation, urlToDelete,
                 isSidebarHidden, storeVars>>

\* the input: onChange={(e) => setNewLinkUrl(e.target.value)}
TypeNewLinkUrl(c) ==
  /\ Unobstructed /\ showAddLinkModal
  /\ newLinkUrl' = c
  /\ lastOp' = "type"
  /\ UNCHANGED <<showAddLinkModal, isAddingLink, addLinkError, listVars, loadVars,
                 settingsVars, dragVars, deleteVars, isSidebarHidden, storeVars>>

\* mutant: the new entry is put first
AppendLinkFirst(prev, url) == <<url>> \o prev

\* setUserLinks(prev => [...prev, newLinkUrl])
AppendLink(prev, url) == Append(prev, url)

handleAddLink ==
  /\ Unobstructed /\ showAddLinkModal /\ ~isAddingLink
  /\ IF Trim(newLinkUrl) = <<>>
       THEN /\ addLinkError' = "Please enter a URL"
            /\ lastOp' = "add:empty"
            /\ UNCHANGED <<listVars, newLinkUrl, showAddLinkModal>>
     ELSE IF ~isValidUrl(newLinkUrl)
       THEN /\ addLinkError' = "Please enter a valid URL"
            /\ lastOp' = "add:invalid"
            /\ UNCHANGED <<listVars, newLinkUrl, showAddLinkModal>>
     ELSE IF Includes(userLinks, newLinkUrl)
       THEN /\ addLinkError' = "This URL is already added"
            /\ lastOp' = "add:duplicate"
            /\ UNCHANGED <<listVars, newLinkUrl, showAddLinkModal>>
     ELSE /\ addLinkError' = ""
          /\ SetUserLinks(AppendLink(userLinks, newLinkUrl))
          /\ newLinkUrl' = Str0
          /\ showAddLinkModal' = FALSE
          /\ lastOp' = "add:accepted"
  /\ isAddingLink' = FALSE
  /\ UNCHANGED <<loadVars, settingsVars, dragVars, deleteVars, isSidebarHidden,
                 storeVars>>

handleCancelAddLink ==
  /\ Unobstructed /\ showAddLinkModal /\ ~isAddingLink
  /\ showAddLinkModal' = FALSE
  /\ newLinkUrl' = Str0
  /\ addLinkError' = ""
  /\ lastOp' = "cancelAdd"
  /\ UNCHANGED <<isAddingLink, listVars, loadVars, settingsVars, dragVars,
                 deleteVars, isSidebarHidden, storeVars>>

(* ------------------------------ delete --------------------------------- *)
\* onContextMenu={(e) => handleRightClick(e, url)} on the icon at index i
handleRightClick(i) ==
  /\ UserIdle
  /\ i \in 0..(Len(userLinks) - 1)
  /\ contextMenu' = [visible |-> TRUE, url |-> At(userLinks, i)]
  /\ lastOp' = "rightClick"
  /\ UNCHANGED <<showDeleteConfirmation, urlToDelete, listVars, loadVars, addVars,
                 settingsVars, dragVars, isSidebarHidden, storeVars>>

\* a click on the page while the menu is open
handleClickOutside ==
  /\ MainView /\ draggedIndex = Null
  /\ contextMenu.visible
  /\ contextMenu' = CloseMenu(contextMenu)
  /\ lastOp' = "clickOutside"
  /\ UNCHANGED <<showDeleteConfirmation, urlToDelete, listVars, loadVars, addVars,
                 settingsVars, dragVars, isSidebarHidden, storeVars>>

\* mutant: the menu is left open
handleDeleteFromContextMenuKeepsMenu ==
  /\ MainView /\ draggedIndex = Null
  /\ contextMenu.visible
  /\ urlToDelete' = contextMenu.url
  /\ showDeleteConfirmation' = TRUE
  /\ lastOp' = "deleteFromMenu"
  /\ UNCHANGED <<contextMenu, listVars, loadVars, addVars, settingsVars, dragVars,
                 isSidebarHidden, storeVars>>

handleDeleteFromContextMenu ==
  /\ MainView /\ draggedIndex = Null
  /\ contextMenu.visible
  /\ urlToDelete' = contextMenu.url
  /\ showDeleteConfirmation' = TRUE
  /\ contextMenu' = CloseMenu(contextMenu)
  /\ lastOp' = "deleteFromMenu"
  /\ UNCHANGED <<listVars, loadVars, addVars, settingsVars, dragVars,
                 isSidebarHidden, storeVars>>

handleConfirmDelete ==
  /\ MainView /\ showDeleteConfirmation
  /\ IF Truthy(urlToDelete)
       THEN /\ SetUserLinks(Filter(userLinks, urlToDelete))
            /\ lastOp' = "confirmDelete"
       ELSE /\ UNCHANGED listVars
            /\ lastOp' = "confirmDelete:nothing"
  /\ showDeleteConfirmation' = FALSE
  /\ urlToDelete' = Str0
  /\ contextMenu' = CloseMenu(contextMenu)
  /\ UNCHANGED <<loadVars, addVars, settingsVars, dragVars, isSidebarHidden,
                 storeVars>>

\* mutant: the pending URL is kept
handleCancelDeleteKeepsUrl ==
  /\ MainView /\ showDeleteConfirmation
  /\ showDeleteConfirmation' = FALSE
  /\ contextMenu' = CloseMenu(contextMenu)
  /\ lastOp' = "cancelDelete"
  /\ UNCHANGED <<urlToDelete, listVars, loadVars, addVars, settingsVars, dragVars,
                 isSidebarHidden, storeVars>>

handleCancelDelete ==
  /\ MainView /\ showDeleteConfirmation
  /\ showDeleteConfirmation' = FALSE
  /\ urlToDelete' = Str0
  /\ contextMenu' = CloseMenu(contextMenu)
  /\ lastOp' = "cancelDelete"
  /\ UNCHANGED <<listVars, loadVars, addVars, settingsVars, dragVars,
                 isSidebarHidden, storeVars>>

(* ------------------------------ reorder -------------------------------- *)
\* the icons can be dragged over while no modal or dialog covers them
IconsReachable == Unobstructed /\ ~showAddLinkModal /\ ~showSettingsModal

handleIconDragStart(i) ==
  /\ UserIdle
  /\ i \in 0..(Len(userLinks) - 1)
  /\ draggedIndex' = i
  /\ lastOp' = "dragStart"
  /\ UNCHANGED <<dragOverIndex, listVars, loadVars, addVars, settingsVars,
                 deleteVars, isSidebarHidden, storeVars>>

\* onDragOver and onDragEnter of an icon run the same update
handleIconDragOver(i) ==
  /\ IconsReachable
  /\ i \in 0..(Len(userLinks) - 1)
  /\ dragOverIndex' = IF draggedIndex # Null /\ draggedIndex # i THEN i ELSE dragOverIndex
  /\ UNCHANGED <<draggedIndex, listVars, loadVars, addVars, settingsVars,
                 deleteVars, isSidebarHidden, storeVars, lastOp>>

\* the pointer left the icon's rectangle (otherwise nothing changes)
handleIconDragLeave ==
  /\ IconsReachable
  /\ Len(userLinks) > 0
  /\ dragOverIndex' = Null
  /\ UNCHANGED <<draggedIndex, listVars, loadVars, addVars, settingsVars,
                 deleteVars, isSidebarHidden, storeVars, lastOp>>

\* mutant: the entry at the drop index is inserted
ReorderedWrongItem(links, from, to) ==
  SpliceInsert(SpliceRemove(links, from), to, At(links, to))

\* mutant: the drop index is lowered by one when the entry moves down the list
ReorderedAdjusted(links, from, to) ==
  SpliceInsert(SpliceRemove(links, from), IF from < to THEN to - 1 ELSE to,
               At(links, from))

\* the list handleIconDrop builds from its two splices
Reordered(links, from, to) ==
  SpliceInsert(SpliceRemove(links, from), to, At(links, from))

\* mutant: a drop on the dragged icon itself is processed like any other
handleIconDropOnItself(dropIndex) ==
  /\ IconsReachable
  /\ dropIndex \in 0..(Len(userLinks) - 1)
  /\ IF draggedIndex = Null
       THEN /\ UNCHANGED <<listVars, dragVars>>
            /\ lastOp' = "drop:ignored"
       ELSE /\ SetUserLinks(Reordered(userLinks, draggedIndex, dropIndex))
            /\ draggedIndex' = Null
            /\ dragOverIndex' = Null
            /\ lastOp' = "drop:moved"
  /\ UNCHANGED <<loadVars, addVars, settingsVars, deleteVars, isSidebarHidden,
                 storeVars>>

handleIconDrop(dropIndex) ==
  /\ IconsReachable
  /\ dropIndex \in 0..(Len(userLinks) - 1)
  /\ IF draggedIndex = Null \/ draggedIndex = dropIndex
       THEN /\ UNCHANGED <<listVars, dragVars>>
            /\ lastOp' = "drop:ignored"
       ELSE /\ SetUserLinks(Reordered(userLinks, draggedIndex, dropIndex))
            /\ draggedIndex' = Null
            /\ dragOverIndex' = Null
            /\ lastOp' = "drop:moved"
  /\ UNCHANGED <<loadVars, addVars, settingsVars, deleteVars, isSidebarHidden,
                 storeVars>>

handleIconDragEnd ==
  /\ draggedIndex # Null
  /\ draggedIndex' = Null
  /\ dragOverIndex' = Null
  /\ lastOp' = "dragEnd"
  /\ UNCHANGED <<listVars, loadVars, addVars, settingsVars, deleteVars,
                 isSidebarHidden, storeVars>>

(* ------------------------------ files ---------------------------------- *)
\* a urls entry that is not a string (typeof url !== 'string')
NonString == <<"<number>">>

\* a File: json is the name/type test of processImportedFile, kind is what
\* JSON.parse(text) gives: "garbage" throws, "null" parses to null, "object"
\* has no urls array, "urls" has one
UrlsFile(u) == [json |-> TRUE, kind |-> "urls", urls |-> u]
NotJsonFile == [json |-> FALSE, kind |-> "urls", urls |-> <<StrX>>]
GarbageFile == [json |-> TRUE, kind |-> "garbage", urls |-> <<>>]
NullFile == [json |-> TRUE, kind |-> "null", urls |-> <<>>]
NoUrlsFile == [json |-> TRUE, kind |-> "object", urls |-> <<>>]

FileUrls ==
  { <<>>, <<StrXY>>, <<StrX>>, <<StrY, StrY>>, <<StrX, StrXY, StrX>>,
    <<StrY, NonString, StrX>> }

Files == {UrlsFile(u) : u \in FileUrls} \cup {NotJsonFile, GarbageFile, NullFile, NoUrlsFile}

\* what a drop can carry: nothing, one file, or two files
DropLists == {<<>>} \cup {<<f>> : f \in Files} \cup {<<GarbageFile, UrlsFile(<<StrX>>)>>}

\* mutant: every string entry passes
IsValidEntryAnyString(e) == e # NonString

\* typeof url === 'string' && isValidUrl(url)
IsValidEntry(e) == e # NonString /\ isValidUrl(e)

RECURSIVE ValidEntries(_)
\* the loop over importData.urls: the entries pushed to validUrls, in order
ValidEntries(s) ==
  IF s = <<>> THEN <<>>
  ELSE IF IsValidEntry(Head(s)) THEN <<Head(s)>> \o ValidEntries(Tail(s))
       ELSE ValidEntries(Tail(s))

RECURSIVE InvalidEntries(_)
\* the entries pushed to invalidUrls, in order
InvalidEntries(s) ==
  IF s = <<>> THEN <<>>
  ELSE IF IsValidEntry(Head(s)) THEN InvalidEntries(Tail(s))
       ELSE <<Head(s)>> \o InvalidEntries(Tail(s))

RECURSIVE NotIn(_, _)
\* validUrls.filter(url => !existingUrls.has(url))
NotIn(s, existing) ==
  IF s = <<>> THEN <<>>
  ELSE IF Includes(existing, Head(s)) THEN NotIn(Tail(s), existing)
       ELSE <<Head(s)>> \o NotIn(Tail(s), existing)

validUrls(f) == ValidEntries(f.urls)
invalidUrls(f) == InvalidEntries(f.urls)
newUrls(f, links) == NotIn(validUrls(f), links)

\* mutant: the invalid count is reported also when it is zero
ImportedMessageAlwaysInvalid(n, k) ==
  <<"Successfully imported ", ToString(n), " new URL", IF n > 1 THEN "s" ELSE "", ".">>
  \o <<" ", ToString(k), " invalid URL", IF k > 1 THEN "s were" ELSE " was", " skipped.">>

\* the success message of processImportedFile
ImportedMessage(n, k) ==
  <<"Successfully imported ", ToString(n), " new URL", IF n > 1 THEN "s" ELSE "", ".">>
  \o (IF k > 0
        THEN <<" ", ToString(k), " invalid URL", IF k > 1 THEN "s were" ELSE " was", " skipped.">>
        ELSE <<>>)

AllPresentMessage == <<"All URLs from the file are already in your list.">>

(* ------------------------------ settings / import ----------------------- *)
\* the settings button: onClick={() => setShowSettingsModal(true)}
OpenSettingsModal ==
  /\ UserIdle
  /\ showSettingsModal' = TRUE
  /\ contextMenu' = CloseMenu(contextMenu)
  /\ lastOp' = "openSettings"
  /\ UNCHANGED <<importError, importSuccess, isImporting, isDragOver, importJob,
                 listVars, loadVars, addVars, dragVars, showDeleteConfirmation,
                 urlToDelete, isSidebarHidden, storeVars>>

handleCloseSettings ==
  /\ Unobstructed /\ showSettingsModal
  /\ showSettingsModal' = FALSE
  /\ importError' = ""
  /\ importSuccess' = <<>>
  /\ isDragOver' = FALSE
  /\ lastOp' = "closeSettings"
  /\ UNCHANGED <<isImporting, importJob, listVars, loadVars, addVars, dragVars,
                 deleteVars, isSidebarHidden, storeVars>>

\* the document handleExportData serialises
ExportDocument(links) == [urls |-> links, version |-> "1.0"]

\* JSON.stringify then JSON.parse of one array element: a string comes back
\* as it was, undefined comes back as null
JsonValue(e) == IF e = Undefined THEN NonString ELSE e

RECURSIVE JsonArray(_)
JsonArray(s) ==
  IF s = <<>> THEN <<>> ELSE <<JsonValue(Head(s))>> \o JsonArray(Tail(s))

\* the File the download of handleExportData leaves on disk: sidebar-urls-
\* <date>.json, of type application/json, holding the serialised document
DownloadedFile(links) == UrlsFile(JsonArray(ExportDocument(links).urls))

handleExportData ==
  /\ Unobstructed /\ showSettingsModal
  /\ lastOp' = "export"
  /\ UNCHANGED <<listVars, loadVars, addVars, settingsVars, dragVars, deleteVars,
                 isSidebarHidden, storeVars>>

\* onDragOver and onDragEnter of the drop zone both end with isDragOver true
handleDragOver ==
  /\ Unobstructed /\ showSettingsModal
  /\ isDragOver' = TRUE
  /\ UNCHANGED <<showSettingsModal, importError, importSuccess, isImporting,
                 importJob, listVars, loadVars, addVars, dragVars, deleteVars,
                 isSidebarHidden, storeVars, lastOp>>

\* the pointer left the drop zone entirely (otherwise nothing changes)
handleDragLeave ==
  /\ Unobstructed /\ showSettingsModal
  /\ isDragOver' = FALSE
  /\ UNCHANGED <<showSettingsModal, importError, importSuccess, isImporting,
                 importJob, listVars, loadVars, addVars, dragVars, deleteVars,
                 isSidebarHidden, storeVars, lastOp>>

\* file.name ends with .json or file.type is application/json
IsJsonFile(f) == f.json

\* the import stays within MaxLinks whatever it appends
FitsImport(f) == Len(userLinks) + Len(validUrls(f)) <= MaxLinks

\* processImportedFile up to its await of file.text()
StartImport(f) ==
  /\ FitsImport(f)
  /\ isImporting' = TRUE
  /\ importError' = ""
  /\ importSuccess' = <<>>
  /\ importJob' = [active |-> TRUE, closure |-> userLinks, file |-> f]

\* the file input: onChange={handleImportData}, disabled={isImporting}
handleImportData(f) ==
  /\ Unobstructed /\ showSettingsModal /\ ~isImporting
  /\ IF ~IsJsonFile(f)
       THEN \* the throw passes the try/finally: an unhandled rejection
            /\ lastOp' = "importData:unhandled"
            /\ UNCHANGED <<importError, importSuccess, isImporting, importJob>>
       ELSE /\ StartImport(f)
            /\ lastOp' = "importData:reading"
  /\ UNCHANGED <<showSettingsModal, isDragOver, listVars, loadVars, addVars,
                 dragVars, deleteVars, isSidebarHidden, storeVars>>

\* mutant: of several dropped files the first is imported
handleDropTakesFirst(files) ==
  /\ Unobstructed /\ showSettingsModal
  /\ isDragOver' = FALSE
  /\ IF isImporting
       THEN /\ lastOp' = "fileDrop:busy"
            /\ UNCHANGED <<importError, importSuccess, isImporting, importJob>>
     ELSE IF Len(files) = 0
       THEN /\ importError' = "No files were dropped."
            /\ lastOp' = "fileDrop:none"
            /\ UNCHANGED <<importSuccess, isImporting, importJob>>
     ELSE IF ~IsJsonFile(files[1])
       THEN /\ lastOp' = "fileDrop:rejected"
            /\ UNCHANGED <<importError, importSuccess, isImporting, importJob>>
     ELSE /\ StartImport(files[1])
          /\ lastOp' = "fileDrop:reading"
  /\ UNCHANGED <<showSettingsModal, listVars, loadVars, addVars, dragVars,
                 deleteVars, isSidebarHidden, storeVars>>

\* mutant: the drop handler without its isImporting guard
handleDropWhileImporting(files) ==
  /\ Unobstructed /\ showSettingsModal
  /\ isDragOver' = FALSE
  /\ IF Len(files) = 0
       THEN /\ importError' = "No files were dropped."
            /\ lastOp' = "fileDrop:none"
            /\ UNCHANGED <<importSuccess, isImporting, importJob>>
     ELSE IF Len(files) > 1
       THEN /\ importError' = "Please drop only one JSON file at a time."
            /\ lastOp' = "fileDrop:many"
            /\ UNCHANGED <<importSuccess, isImporting, importJob>>
     ELSE IF ~IsJsonFile(files[1])
       THEN /\ lastOp' = "fileDrop:rejected"
            /\ UNCHANGED <<importError, importSuccess, isImporting, importJob>>
     ELSE /\ StartImport(files[1])
          /\ lastOp' = "fileDrop:reading"
  /\ UNCHANGED <<showSettingsModal, listVars, loadVars, addVars, dragVars,
                 deleteVars, isSidebarHidden, storeVars>>

handleDrop(files) ==
  /\ Unobstructed /\ showSettingsModal
  /\ isDragOver' = FALSE
  /\ IF isImporting
       THEN /\ lastOp' = "fileDrop:busy"
            /\ UNCHANGED <<importError, importSuccess, isImporting, importJob>>
     ELSE IF Len(files) = 0
       THEN /\ importError' = "No files were dropped."
            /\ lastOp' = "fileDrop:none"
            /\ UNCHANGED <<importSuccess, isImporting, importJob>>
     ELSE IF Len(files) > 1
       THEN /\ importError' = "Please drop only one JSON file at a time."
            /\ lastOp' = "fileDrop:many"
            /\ UNCHANGED <<importSuccess, isImporting, importJob>>
     ELSE IF ~IsJsonFile(files[1])
       THEN \* the throw is caught and logged
            /\ lastOp' = "fileDrop:rejected"
            /\ UNCHANGED <<importError, importSuccess, isImporting, importJob>>
     ELSE /\ StartImport(files[1])
          /\ lastOp' = "fileDrop:reading"
  /\ UNCHANGED <<showSettingsModal, listVars, loadVars, addVars, dragVars,
                 deleteVars, isSidebarHidden, storeVars>>

\* the list processImportedFile leaves when it runs file f against links
ImportResult(f, links) ==
  IF f.kind = "urls" /\ Len(validUrls(f)) > 0 /\ Len(newUrls(f, links)) > 0
    THEN links \o newUrls(f, links)
    ELSE links

\* mutant: the catch only logs the error
CatchMessageDropped(message) == ""

\* catch (error): error instanceof Error ? error.message : 'Failed to import
\* file.'; every fault thrown in the try block is an Error
CatchMessage(message) == message

\* processImportedFile after file.text() resolved; userLinks is the list of
\* the render in which the import started
ResumeImport ==
  /\ importJob.active
  /\ LET f == importJob.file
         links == importJob.closure
         added == newUrls(f, links)
     IN
     IF f.kind = "garbage"
       THEN /\ importError' = CatchMessage("SyntaxError: JSON.parse")
            /\ lastOp' = "import:error"
            /\ UNCHANGED <<importSuccess, listVars>>
     ELSE IF f.kind = "null"
       THEN /\ importError' = CatchMessage("TypeError: importData is null")
            /\ lastOp' = "import:error"
            /\ UNCHANGED <<importSuccess, listVars>>
     ELSE IF f.kind = "object"
       THEN /\ importError' = CatchMessage("Invalid file format. Expected JSON with \"urls\" array.")
            /\ lastOp' = "import:error"
            /\ UNCHANGED <<importSuccess, listVars>>
     ELSE IF Len(validUrls(f)) = 0
       THEN /\ importError' = CatchMessage("No valid URLs found in the imported file.")
            /\ lastOp' = "import:error"
            /\ UNCHANGED <<importSuccess, listVars>>
     ELSE IF Len(added) = 0
       THEN /\ importSuccess' = AllPresentMessage
            /\ lastOp' = "import:nothingNew"
            /\ UNCHANGED <<importError, listVars>>
     ELSE /\ SetUserLinks(ImportResult(f, links))
          /\ importSuccess' = ImportedMessage(Len(added), Len(invalidUrls(f)))
          /\ lastOp' = "import:added"
          /\ UNCHANGED importError
  /\ isImporting' = FALSE
  /\ importJob' = NoJob
  /\ UNCHANGED <<showSettingsModal, isDragOver, loadVars, addVars, dragVars,
                 deleteVars, isSidebarHidden, storeVars>>

(* ------------------------------ visibility ------------------------------ *)
handleHideSidebar ==
  /\ UserIdle
  /\ isSidebarHidden' = TRUE
  /\ contextMenu' = CloseMenu(contextMenu)
  /\ lastOp' = "hide"
  /\ UNCHANGED <<showDeleteConfirmation, urlToDelete, listVars, loadVars, addVars,
                 settingsVars, dragVars, storeVars>>

handleShowSidebar ==
  /\ isSidebarHidden
  /\ isSidebarHidden' = FALSE
  /\ lastOp' = "show"
  /\ UNCHANGED <<listVars, loadVars, addVars, settingsVars, dragVars, deleteVars,
                 storeVars>>

(* ------------------------------ specifications -------------------------- *)
(* -------------------------- storage service ---------------------------- *)
\* values a message can carry as its data
JsValue(kind, items, flag) == [kind |-> kind, items |-> items, flag |-> flag]
JsUndefined == JsValue("undefined", <<>>, FALSE)
JsObject == JsValue("object", <<>>, FALSE)
JsArrayOf(items) == JsValue("array", items, FALSE)
JsBoolean(b) == JsValue("boolean", <<>>, b)

\* payloads sent with save-user-links: absent, not an array, arrays of
\* strings (the empty one included) and an array with a non-string element
SaveLinksPayloads ==
  { JsUndefined, JsObject, JsArrayOf(<<>>), JsArrayOf(<<StrX>>),
    JsArrayOf(<<StrY, StrX>>), JsArrayOf(<<NonString, StrX>>) }

\* payloads sent with save-sidebar-visibility: the booleans and a value
\* that is not a boolean
SaveVisibilityPayloads == { JsBoolean(TRUE), JsBoolean(FALSE), JsObject }

NoReply == [success |-> FALSE, error |-> "", data |-> JsUndefined]
Failure(message) == [success |-> FALSE, error |-> message, data |-> JsUndefined]
Success(value) == [success |-> TRUE, error |-> "", data |-> value]

\* an invocation of an onMessage handler
Call(type, data, pc, reply) ==
  [type |-> type, data |-> data, pc |-> pc, threw |-> FALSE, got |-> JsUndefined,
   accesses |-> 0, reply |-> reply]

\* the handler starts and suspends at its await of the storage item
Suspend(type, data) ==
  /\ Len(calls) < MaxCalls
  /\ calls' = Append(calls, Call(type, data, "await", NoReply))
  /\ UNCHANGED svcLog

\* the handler starts and returns its reply without reaching the storage item
Reject(type, data, message) ==
  /\ Len(calls) < MaxCalls
  /\ calls' = Append(calls, Call(type, data, "returned", Failure(message)))
  /\ svcLog' = Append(svcLog, [ev |-> "returned", call |-> Len(calls) + 1])

\* data && Array.isArray(data): every array is truthy, the empty one too
IsArray(data) == data.kind = "array"

\* onMessage('save-user-links') up to its first await or early return
ReceiveSaveUserLinks(data) ==
  /\ IF IsArray(data)
       THEN Suspend("save-user-links", data)
       ELSE Reject("save-user-links", data, "No data provided or invalid data format")
  /\ UNCHANGED <<linksItem, visibilityItem, savesInOrder, listVars, loadVars, addVars,
                 settingsVars, dragVars, deleteVars, isSidebarHidden, lastOp>>

\* onMessage('load-user-links') up to its await
ReceiveLoadUserLinks ==
  /\ Suspend("load-user-links", JsUndefined)
  /\ UNCHANGED <<linksItem, visibilityItem, savesInOrder, listVars, loadVars, addVars,
                 settingsVars, dragVars, deleteVars, isSidebarHidden, lastOp>>

\* mutant: any defined payload is taken for the flag
IsDefined(data) == data.kind # "undefined"

\* typeof data === 'boolean'
IsBoolean(data) == data.kind = "boolean"

\* onMessage('save-sidebar-visibility') up to its first await or early return
ReceiveSaveSidebarVisibility(data) ==
  /\ IF IsBoolean(data)
       THEN Suspend("save-sidebar-visibility", data)
       ELSE Reject("save-sidebar-visibility", data, "Invalid data format - expected boolean")
  /\ UNCHANGED <<linksItem, visibilityItem, savesInOrder, listVars, loadVars, addVars,
                 settingsVars, dragVars, deleteVars, isSidebarHidden, lastOp>>

\* onMessage('load-sidebar-visibility') up to its await
ReceiveLoadSidebarVisibility ==
  /\ Suspend("load-sidebar-visibility", JsUndefined)
  /\ UNCHANGED <<linksItem, visibilityItem, savesInOrder, listVars, loadVars, addVars,
                 settingsVars, dragVars, deleteVars, isSidebarHidden, lastOp>>

Settled(c, got) == [c EXCEPT !.pc = "settled", !.got = got, !.accesses = @ + 1]

\* the awaited setValue / getValue of call i is carried out by the backend
BackendSettles(i) ==
  /\ i \in 1..Len(calls)
  /\ calls[i].pc = "await"
  /\ LET c == calls[i] IN
       CASE c.type = "save-user-links" ->
              /\ linksItem' = SetValue(linksItem, c.data.items)
              /\ calls' = [calls EXCEPT ![i] = Settled(c, JsUndefined)]
              /\ svcLog' = Append(svcLog, [ev |-> "stored", call |-> i])
              /\ UNCHANGED visibilityItem
         [] c.type = "load-user-links" ->
              /\ calls' = [calls EXCEPT ![i] = Settled(c, JsArrayOf(GetValue(linksItem)))]
              /\ svcLog' = Append(svcLog, [ev |-> "read", call |-> i])
              /\ UNCHANGED <<linksItem, visibilityItem>>
         [] c.type = "save-sidebar-visibility" ->
              /\ visibilityItem' = [present |-> TRUE, value |-> c.data.flag]
              /\ calls' = [calls EXCEPT ![i] = Settled(c, JsUndefined)]
              /\ svcLog' = Append(svcLog, [ev |-> "stored", call |-> i])
              /\ UNCHANGED linksItem
         [] c.type = "load-sidebar-visibility" ->
              /\ calls' = [calls EXCEPT ![i] =
                             Settled(c, JsBoolean(GetVisibility(visibilityItem)))]
              /\ svcLog' = Append(svcLog, [ev |-> "read", call |-> i])
              /\ UNCHANGED <<linksItem, visibilityItem>>
  /\ UNCHANGED <<savesInOrder, listVars, loadVars, addVars, settingsVars, dragVars,
                 deleteVars, isSidebarHidden, lastOp>>

\* mutant: a rejected access is tried again
BackendThrowsAndRetries(i) ==
  /\ i \in 1..Len(calls)
  /\ calls[i].pc = "await"
  /\ calls[i].accesses < 2
  /\ calls' = [calls EXCEPT ![i].accesses = @ + 1]
  /\ svcLog' = Append(svcLog, [ev |-> "threw", call |-> i])
  /\ UNCHANGED <<linksItem, visibilityItem, savesInOrder, listVars, loadVars, addVars,
                 settingsVars, dragVars, deleteVars, isSidebarHidden, lastOp>>

\* the awaited setValue / getValue of call i rejects
BackendThrows(i) ==
  /\ i \in 1..Len(calls)
  /\ calls[i].pc = "await"
  /\ calls' = [calls EXCEPT ![i] = [Settled(@, JsUndefined) EXCEPT !.threw = TRUE]]
  /\ svcLog' = Append(svcLog, [ev |-> "threw", call |-> i])
  /\ UNCHANGED <<linksItem, visibilityItem, savesInOrder, listVars, loadVars, addVars,
                 settingsVars, dragVars, deleteVars, isSidebarHidden, lastOp>>

\* where in svcLog the backend access of call i stands
SettledAt(i) ==
  CHOOSE k \in 1..Len(svcLog) :
    svcLog[k].call = i /\ svcLog[k].ev \in {"stored", "read", "threw"}

\* mutant: the reply does not wait for the storage item
CanReturnUnsettled(c) == c.pc \in {"await", "settled"}

\* the code after the await runs once the awaited promise has settled
CanReturn(c) == c.pc = "settled"

\* return {success: true}, return {success: true, data}, or the catch block
ReplyOf(c) ==
  IF c.threw THEN Failure("<error.message>")
  ELSE IF c.type \in {"load-user-links", "load-sidebar-visibility"} THEN Success(c.got)
  ELSE Success(JsUndefined)

\* the handler of call i resumes after its await and returns its reply;
\* promises settled by the backend resume their handlers in settling order
HandlerReturns(i) ==
  /\ i \in 1..Len(calls)
  /\ CanReturn(calls[i])
  /\ \A j \in 1..Len(calls) :
       (j # i /\ calls[j].pc = "settled" /\ calls[i].pc = "settled"
        /\ calls[j].type = calls[i].type)
         => SettledAt(i) < SettledAt(j)
  /\ calls' = [calls EXCEPT ![i] = [calls[i] EXCEPT !.pc = "returned",
                                                      !.reply = ReplyOf(calls[i])]]
  /\ svcLog' = Append(svcLog, [ev |-> "returned", call |-> i])
  /\ UNCHANGED <<linksItem, visibilityItem, savesInOrder, listVars, loadVars, addVars,
                 settingsVars, dragVars, deleteVars, isSidebarHidden, lastOp>>

ServiceSteps ==
  \/ \E d \in SaveLinksPayloads : ReceiveSaveUserLinks(d)
  \/ ReceiveLoadUserLinks
  \/ \E d \in SaveVisibilityPayloads : ReceiveSaveSidebarVisibility(d)
  \/ ReceiveLoadSidebarVisibility
  \/ \E i \in 1..MaxCalls : BackendSettles(i)
  \/ \E i \in 1..MaxCalls : BackendThrows(i)
  \/ \E i \in 1..MaxCalls : HandlerReturns(i)

(* ------------------------------ another tab ---------------------------- *)
\* a second tab running the same Sidebar: it has loaded the stored list, its
\* user adds url (handleAddLink), and its save-user-links is handled
OtherTabAdds(url) ==
  /\ isValidUrl(url)
  /\ ~Includes(GetValue(linksItem), url)
  /\ Len(GetValue(linksItem)) < MaxLinks
  /\ linksItem' = SetValue(linksItem, AppendLink(GetValue(linksItem), url))
  /\ UNCHANGED <<savesInOrder, svcVars, listVars, loadVars, addVars, settingsVars,
                 dragVars, deleteVars, isSidebarHidden, lastOp>>

(* ------------------------------ injection ------------------------------ *)
sidebarVars ==
  <<loadPc, attempt, delay, loadMsg, loadLog, listVars, addVars, settingsVars,
    dragVars, deleteVars, isSidebarHidden, storeVars, lastOp>>

\* mutant: the container is created without looking for an earlier one
initSidebarUnguarded(p, throws) ==
  IF ~p.body THEN [p EXCEPT !.due = @ + 1]
  ELSE IF throws THEN [p EXCEPT !.containers = @ + 1]
  ELSE [p EXCEPT !.containers = @ + 1, !.roots = @ + 1]

\* initSidebar(): skip when the container exists, come back in 100 ms while
\* there is no body, otherwise insert the container and render <Sidebar/>;
\* an exception after the insertion is caught and logged
initSidebar(p, throws) ==
  IF p.containers > 0 THEN p
  ELSE IF ~p.body THEN [p EXCEPT !.due = @ + 1]
  ELSE IF throws THEN [p EXCEPT !.containers = @ + 1]
  ELSE [p EXCEPT !.containers = @ + 1, !.roots = @ + 1]

\* main() of the content script
main ==
  /\ page.runs < MaxRuns
  /\ \E throws \in BOOLEAN :
       page' = IF page.readyState = "loading"
                 THEN [page EXCEPT !.runs = @ + 1, !.listeners = @ + 1]
                 ELSE initSidebar([page EXCEPT !.runs = @ + 1], throws)
  /\ UNCHANGED sidebarVars

\* the document finishes parsing: every registered listener becomes due
DOMContentLoaded ==
  /\ page.readyState = "loading"
  /\ page' = [page EXCEPT !.readyState = "complete", !.due = @ + page.listeners,
                          !.listeners = 0]
  /\ UNCHANGED sidebarVars

\* the parser creates document.body
BodyParsed ==
  /\ ~page.body
  /\ page' = [page EXCEPT !.body = TRUE]
  /\ UNCHANGED sidebarVars

\* a due call of initSidebar runs (a listener, or the 100 ms timer)
RunInitSidebar ==
  /\ page.due > 0
  /\ \E throws \in BOOLEAN :
       page' = initSidebar([page EXCEPT !.due = @ - 1], throws)
  /\ UNCHANGED sidebarVars

InjectSteps == main \/ DOMContentLoaded \/ BodyParsed \/ RunInitSidebar

\* root.render(<Sidebar/>) has mounted the component
Mounted == page.roots > 0

LoadSteps ==
  \/ SendLoad \/ OnLoadUserLinks \/ LoadMessagingError \/ LoadNoData
  \/ LoadResume \/ BackoffElapsed

SaveSteps ==
  \/ \E i \in 1..MaxInFlight : OnSaveUserLinks(i)
  \/ \E i \in 1..MaxInFlight : OnSaveUserLinksFail(i)

AddSteps ==
  \/ OpenAddLinkModal
  \/ \E c \in Candidates : TypeNewLinkUrl(c)
  \/ handleAddLink
  \/ handleCancelAddLink

DeleteSteps ==
  \/ \E i \in 0..(MaxLinks - 1) : handleRightClick(i)
  \/ handleClickOutside
  \/ handleDeleteFromContextMenu
  \/ handleConfirmDelete
  \/ handleCancelDelete

ReorderSteps ==
  \/ \E i \in 0..(MaxLinks - 1) : handleIconDragStart(i)
  \/ \E i \in 0..(MaxLinks - 1) : handleIconDragOver(i)
  \/ handleIconDragLeave
  \/ \E i \in 0..(MaxLinks - 1) : handleIconDrop(i)
  \/ handleIconDragEnd

ImportSteps ==
  \/ OpenSettingsModal
  \/ handleCloseSettings
  \/ handleExportData
  \/ handleDragOver \/ handleDragLeave
  \/ \E f \in Files : handleImportData(f)
  \/ \E fs \in DropLists : handleDrop(fs)
  \/ ResumeImport

VisibilitySteps == handleHideSidebar \/ handleShowSidebar

CoreSteps == LoadSteps \/ SaveSteps

\* injection into a page, then the mounted Sidebar's load and save exchanges
NextInject == InjectSteps \/ (Mounted /\ CoreSteps)
SpecInject == InitPage /\ [][NextInject]_vars

\* a tab that only mounts and loads, beside a tab whose user adds bookmarks
NextTwoTabs == CoreSteps \/ \E c \in Candidates \cup {StrZ} : OtherTabAdds(c)
SpecTwoTabs == Init /\ [][NextTwoTabs]_vars

\* the storage service under messages from any number of tabs
NextService == ServiceSteps
SpecService == Init /\ [][NextService]_vars

\* the add and reorder flows with export and hide/show
NextExport ==
  \/ CoreSteps \/ AddSteps \/ ReorderSteps \/ VisibilitySteps
  \/ OpenSettingsModal \/ handleCloseSettings \/ handleExportData
SpecExport == Init /\ [][NextExport]_vars

\* the add flow over the load and save exchanges
NextAdd == CoreSteps \/ AddSteps
SpecAdd == Init /\ [][NextAdd]_vars

\* the delete flow; the file picker imports one file, which names a new URL twice
DupFile == UrlsFile(<<StrY, StrY>>)
PickerSteps ==
  \/ OpenSettingsModal
  \/ handleCloseSettings
  \/ handleImportData(DupFile)
  \/ ResumeImport
NextDelete == CoreSteps \/ DeleteSteps \/ PickerSteps
SpecDelete == Init /\ [][NextDelete]_vars

\* the reorder flow
NextReorder == CoreSteps \/ ReorderSteps
SpecReorder == Init /\ [][NextReorder]_vars

\* the settings modal: export and import by picker and by drop
NextImport == CoreSteps \/ ImportSteps
SpecImport == Init /\ [][NextImport]_vars

\* the import flow without the drop-zone highlight and the export, which leave
\* the import alone; the picker takes every file, a drop carries nothing, a
\* file of the wrong type, a file with a urls array, or two files
FewDrops ==
  { <<>>, <<NotJsonFile>>, <<UrlsFile(<<StrY, NonString, StrX>>)>>,
    <<GarbageFile, UrlsFile(<<StrX>>)>> }
ImportOutcomeSteps ==
  \/ OpenSettingsModal
  \/ handleCloseSettings
  \/ \E f \in Files : handleImportData(f)
  \/ \E fs \in FewDrops : handleDrop(fs)
  \/ ResumeImport
NextImportOutcomes == CoreSteps \/ ImportOutcomeSteps
SpecImportOutcomes == Init /\ [][NextImportOutcomes]_vars

\* the progress of an import: the picker takes a file of the wrong type, one
\* that does not parse and one with a new URL; a drop carries nothing, one of
\* these files, or two files.  file.text() settles and every message to the
\* background is answered or rejected, so the continuation of a started import
\* and the answer to a save in flight are not postponed for ever
ProgressFiles == {NotJsonFile, GarbageFile, UrlsFile(<<StrY>>)}
ProgressDrops ==
  {<<>>, <<GarbageFile, UrlsFile(<<StrX>>)>>} \cup {<<f>> : f \in ProgressFiles}
ImportProgressSteps ==
  \/ OpenSettingsModal
  \/ handleCloseSettings
  \/ handleDragOver
  \/ \E f \in ProgressFiles : handleImportData(f)
  \/ \E fs \in ProgressDrops : handleDrop(fs)
  \/ ResumeImport
NextImportProgress == CoreSteps \/ ImportProgressSteps
SpecImportProgress ==
  /\ Init
  /\ [][NextImportProgress]_vars
  /\ WF_vars(ResumeImport)
  /\ WF_vars(SaveSteps)

\* the add and reorder flows together
NextAddReorder == CoreSteps \/ AddSteps \/ ReorderSteps
SpecAddReorder == Init /\ [][NextAddReorder]_vars

\* the add and reorder flows of a tab that finds the store empty
InitEmptyStore == Init /\ ~linksItem.present
SpecFromEmptyStore == InitEmptyStore /\ [][NextAddReorder]_vars

\* the whole controller and the storage service
Next ==
  \/ LoadSteps \/ SaveSteps \/ AddSteps \/ DeleteSteps \/ ReorderSteps
  \/ ImportSteps \/ VisibilitySteps \/ ServiceSteps \/ InjectSteps

Spec == Init /\ [][Next]_vars
(* ============================== claims ================================== *)
\* the handler steps that change the working list on the user's command
AcceptedAdd == handleAddLink /\ lastOp' = "add:accepted"
ConfirmedDelete == handleConfirmDelete /\ lastOp' = "confirmDelete"
EffectiveReorder == \E i \in 0..(MaxLinks - 1) : handleIconDrop(i) /\ lastOp' = "drop:moved"
AddingImport == ResumeImport /\ lastOp' = "import:added"

MutationOps == {"add:accepted", "confirmDelete", "drop:moved", "import:added"}

\* C1: after a mutation, once every save request issued has been handled
\* successfully and in issue order, the stored list equals the working list
\* (also when the working list became empty).
C1_StoredEqualsWorking ==
  (lastOp \in MutationOps /\ saveReqs = <<>> /\ savesInOrder)
    => GetValue(linksItem) = userLinks

\* C2: no URL string occurs twice in the working list.
C2_NoDuplicateUrl ==
  \A i, j \in 1..Len(userLinks) : i # j => userLinks[i] # userLinks[j]

\* C3: every accepted Add, confirmed Delete, effective Reorder and adding
\* Import issues exactly one save request, whose payload is the whole
\* resulting working list, behind the requests issued before it.
C3_EveryMutationSaves ==
  [][(AcceptedAdd \/ ConfirmedDelete \/ EffectiveReorder \/ AddingImport)
       => saveReqs' = saveReqs \o <<userLinks'>>]_vars
\* C4: Add of a valid absolute URL that is not in the list makes the list one
\* longer, puts the new entry last and keeps every earlier entry in place.
C4_AddAppends ==
  [][(handleAddLink /\ UrlParses(newLinkUrl) /\ Count(userLinks, newLinkUrl) = 0)
       => /\ Len(userLinks') = Len(userLinks) + 1
          /\ userLinks'[Len(userLinks')] = newLinkUrl
          /\ \A k \in 1..Len(userLinks) : userLinks'[k] = userLinks[k]]_vars

C4_Witness == lastOp = "add:accepted" /\ Len(userLinks) >= 2

\* C5: Add of a URL that is already in the list changes neither the list nor
\* the save requests and shows the duplicate error, however often repeated.
C5_DuplicateAddRejected ==
  [][(handleAddLink /\ Count(userLinks, newLinkUrl) > 0)
       => /\ userLinks' = userLinks
          /\ saveReqs' = saveReqs
          /\ addLinkError' = "This URL is already added"]_vars

C5_Witness ==
  /\ lastOp = "add:duplicate"
  /\ addLinkError = "This URL is already added"
  /\ Count(userLinks, newLinkUrl) > 0

\* the two messages of the validation failure
ValidationErrors == {"Please enter a URL", "Please enter a valid URL"}

\* C6: Add of an empty, blank or malformed candidate shows a validation error,
\* whether or not the candidate occurs in the list, and changes neither the
\* list nor the save requests; the modal stays open.
C6_InvalidAddRejected ==
  [][(handleAddLink /\ (Trim(newLinkUrl) = <<>> \/ ~UrlParses(newLinkUrl)))
       => /\ userLinks' = userLinks
          /\ saveReqs' = saveReqs
          /\ addLinkError' \in ValidationErrors
          /\ showAddLinkModal']_vars

C6_Witness ==
  /\ lastOp = "add:invalid"
  /\ newLinkUrl = StrXY
  /\ addLinkError = "Please enter a valid URL"
  /\ showAddLinkModal
  /\ userLinks # <<>>

\* the list without the first entry equal to x
RemoveFirst(s, x) ==
  IF Count(s, x) = 0 THEN s
  ELSE LET k == CHOOSE i \in 1..Len(s) : s[i] = x /\ \A j \in 1..(i - 1) : s[j] # x
       IN SubSeq(s, 1, k - 1) \o SubSeq(s, k + 1, Len(s))

\* C7: a confirmed Delete of u removes the first entry equal to u and nothing
\* else; the list becomes exactly one shorter.
C7_DeleteRemovesOneEntry ==
  [][ConfirmedDelete
       => /\ Len(userLinks') = Len(userLinks) - 1
          /\ userLinks' = RemoveFirst(userLinks, urlToDelete)]_vars

\* C8: dismissing the context menu or cancelling the confirmation changes
\* neither the list nor the save requests and leaves nothing pending.
C8_CancelChangesNothing ==
  [][(handleClickOutside \/ handleCancelDelete)
       => /\ userLinks' = userLinks
          /\ saveReqs' = saveReqs
          /\ ~contextMenu'.visible
          /\ ~showDeleteConfirmation'
          /\ urlToDelete' = Str0]_vars

C8_Witness ==
  /\ lastOp = "cancelDelete"
  /\ userLinks # <<>>
  /\ Count(userLinks, contextMenu.url) > 0

\* C9: the delete flow removes an entry only in a step taken with the
\* confirmation pending for that URL; the confirmation opens only from the
\* visible menu, for the menu's URL, and closes the menu; the pending URL does
\* not change while the confirmation is open; the menu opens only by a right
\* click on an entry of the list.
C9_DeleteOrdering ==
  [][/\ (lastOp' = "confirmDelete" /\ userLinks' # userLinks)
          => /\ showDeleteConfirmation
             /\ \A k \in 1..Len(userLinks) :
                  Count(userLinks', userLinks[k]) < Count(userLinks, userLinks[k])
                    => userLinks[k] = urlToDelete
     /\ (~showDeleteConfirmation /\ showDeleteConfirmation')
          => /\ contextMenu.visible
             /\ urlToDelete' = contextMenu.url
             /\ ~contextMenu'.visible
     /\ (showDeleteConfirmation /\ showDeleteConfirmation')
          => urlToDelete' = urlToDelete
     /\ (~contextMenu.visible /\ contextMenu'.visible)
          => /\ lastOp' = "rightClick"
             /\ Count(userLinks, contextMenu'.url) > 0]_vars

C9_Witness ==
  /\ lastOp = "confirmDelete"
  /\ ~showDeleteConfirmation
  /\ userLinks # <<>>
  /\ Count(userLinks, contextMenu.url) = 0

\* C10: a drop with a valid dragged index and a different valid drop index
\* keeps the length of the list and the number of occurrences of every entry.
C10_ReorderPreservesEntries ==
  [][\A i \in 0..(MaxLinks - 1) :
       (handleIconDrop(i) /\ draggedIndex \in 0..(Len(userLinks) - 1) /\ draggedIndex # i)
         => /\ Len(userLinks') = Len(userLinks)
            /\ \A k \in 1..Len(userLinks) :
                 Count(userLinks', userLinks[k]) = Count(userLinks, userLinks[k])]_vars

C10_Witness ==
  /\ lastOp = "drop:moved"
  /\ Len(userLinks) = 3
  /\ userLinks[1] # StrX

\* C11: a drop of the entry dragged from index s on a different index d puts
\* that entry at index d, moves every entry between s and d (the one at d
\* included) one position toward s and leaves every other entry at its
\* index; a two-entry list is swapped.
C11_ReorderIsRemoveThenInsert ==
  [][\A d \in 0..(MaxLinks - 1) :
       (handleIconDrop(d) /\ draggedIndex \in 0..(Len(userLinks) - 1) /\ draggedIndex # d)
         => LET s == draggedIndex
                lo == IF s < d THEN s ELSE d
                hi == IF s < d THEN d ELSE s
            IN /\ Len(userLinks') = Len(userLinks)
               /\ At(userLinks', d) = At(userLinks, s)
               /\ \A k \in 0..(Len(userLinks) - 1) :
                    /\ (k < lo \/ k > hi) => At(userLinks', k) = At(userLinks, k)
                    /\ (s < d /\ s < k /\ k <= d) => At(userLinks', k - 1) = At(userLinks, k)
                    /\ (d < s /\ d <= k /\ k < s) => At(userLinks', k + 1) = At(userLinks, k)
               /\ userLinks = <<StrX, StrY>> => userLinks' = <<StrY, StrX>>]_vars

C11_Witness ==
  /\ lastOp = "drop:moved"
  /\ userLinks = <<StrY, StrZ, StrX>>
  /\ draggedIndex = Null

\* C12: a drop on the dragged entry's own index, and a drop while nothing is
\* dragged, change neither the working list nor the save requests.
C12_SelfDropIsNoOp ==
  [][\A d \in 0..(MaxLinks - 1) :
       (handleIconDrop(d) /\ (draggedIndex = Null \/ draggedIndex = d))
         => /\ userLinks' = userLinks
            /\ saveReqs' = saveReqs]_vars

C12_Witness ==
  /\ lastOp = "drop:ignored"
  /\ draggedIndex # Null
  /\ Len(userLinks) >= 2

\* C13: an import of a file with a urls array leaves the existing entries of
\* the working list in place and appends exactly the valid entries of the file
\* that the working list does not hold, in file order.
C13_ImportAppendsValidNew ==
  [][(ResumeImport /\ importJob.file.kind = "urls")
       => userLinks' = userLinks \o NotIn(ValidEntries(importJob.file.urls), userLinks)]_vars

\* the file being imported has a urls array / holds a string that parses as a URL
ImportsUrlsFile == ResumeImport /\ importJob.file.kind = "urls"
HasValidEntry(u) == \E k \in 1..Len(u) : u[k] # NonString /\ UrlParses(u[k])

\* C14: an import of a parseable file with a urls array never ends with an
\* import error, whatever invalid entries the array holds, also when every
\* entry is invalid or the array is empty.
C14_InvalidNeverFatal ==
  [][ImportsUrlsFile => (importError' = "" /\ lastOp' # "import:error")]_vars

\* C14 as amended: with at least one valid entry in the array the import does
\* not end with an error; with none (all invalid, or empty) it ends with the
\* error "No valid URLs found in the imported file." and changes neither the
\* list nor the save requests.
C14_InvalidNotFatalGivenOneValid ==
  [][ImportsUrlsFile
       => IF HasValidEntry(importJob.file.urls)
            THEN importError' = "" /\ lastOp' # "import:error"
            ELSE /\ importError' = "No valid URLs found in the imported file."
                 /\ importSuccess' = <<>>
                 /\ userLinks' = userLinks
                 /\ saveReqs' = saveReqs]_vars

C14_Witness ==
  /\ lastOp = "import:added"
  /\ importSuccess = ImportedMessage(1, 1)
  /\ importError = ""

\* C15: an import of a file whose text does not parse, or parses to something
\* without a urls array, ends with an import error message shown and no
\* success message, and changes neither the working list nor the save requests.
C15_FormatErrorShown ==
  [][(ResumeImport /\ importJob.file.kind \in {"garbage", "null", "object"})
       => /\ importError' # ""
          /\ importSuccess' = <<>>
          /\ ~isImporting'
          /\ userLinks' = userLinks
          /\ saveReqs' = saveReqs]_vars

C15_Witness ==
  /\ lastOp = "import:error"
  /\ importError = "Invalid file format. Expected JSON with \"urls\" array."
  /\ userLinks # <<>>

\* the numbers a message shows, in order
Numerals == {ToString(n) : n \in 0..9}
RECURSIVE ReportedNumbers(_)
ReportedNumbers(msg) ==
  IF msg = <<>> THEN <<>>
  ELSE IF Head(msg) \in Numerals THEN <<Head(msg)>> \o ReportedNumbers(Tail(msg))
       ELSE ReportedNumbers(Tail(msg))

\* the entries of a urls array by category, against the list the import merges into
EntryIsValid(e) == e # NonString /\ UrlParses(e)
NumInvalid(u) == Cardinality({k \in 1..Len(u) : ~EntryIsValid(u[k])})
NumDuplicate(u, links) ==
  Cardinality({k \in 1..Len(u) : EntryIsValid(u[k]) /\ Count(links, u[k]) > 0})
NumNew(u, links) ==
  Cardinality({k \in 1..Len(u) : EntryIsValid(u[k]) /\ Count(links, u[k]) = 0})

C17_ExportImportRoundTrip ==
  ImportResult(DownloadedFile(userLinks), <<>>) = userLinks

\* a drop of more than one file on the drop zone
FileDropOps ==
  {"fileDrop:busy", "fileDrop:none", "fileDrop:many", "fileDrop:rejected",
   "fileDrop:reading"}
MultiFileDrop ==
  /\ lastOp' \in FileDropOps
  /\ \E fs \in DropLists : Len(fs) > 1 /\ handleDrop(fs)

\* what no drop of several files may do: start an import or change the list
NothingImported ==
  /\ importJob' = importJob
  /\ isImporting' = isImporting
  /\ userLinks' = userLinks
  /\ saveReqs' = saveReqs

\* C18: a drop of more than one file sets an import error, starts no import
\* and changes neither the working list nor the save requests.
C18_MultiFileDropSetsError ==
  [][MultiFileDrop => (importError' # "" /\ NothingImported)]_vars

\* C18 as amended: a drop of more than one file starts no import and changes
\* neither the working list nor the save requests; it sets the import error
\* "Please drop only one JSON file at a time." unless an import is in
\* progress, in which case it is ignored and the messages stay as they are.
C18_MultiFileDropRejected ==
  [][MultiFileDrop
       => /\ NothingImported
          /\ importSuccess' = importSuccess
          /\ IF isImporting
               THEN importError' = importError
               ELSE importError' = "Please drop only one JSON file at a time."]_vars

C18_Witness ==
  /\ lastOp = "fileDrop:many"
  /\ importError = "Please drop only one JSON file at a time."
  /\ ~isImporting /\ ~importJob.active
  /\ userLinks # <<>>

\* C19: no handler ends with a fault nobody catches, and no failure leaves a
\* control disabled: the add button is enabled, and the import controls are
\* disabled only while an import is reading its file.
C19_FailuresHandled ==
  /\ lastOp # "importData:unhandled"
  /\ ~isAddingLink
  /\ isImporting => importJob.active

\* C20: at most three load requests are sent; a request is sent only as the
\* first event of the mount or right after a failed one, so never while
\* another is outstanding and never after a successful response.
C20_BoundedSequentialLoad ==
  /\ Count(loadLog, "sent") <= 3
  /\ \A i \in 1..Len(loadLog) :
       loadLog[i] = "sent" => (i = 1 \/ loadLog[i - 1] = "failed")
  /\ loadMsg.kind # "none" => (loadLog # <<>> /\ loadLog[Len(loadLog)] = "sent")

C20_Witness ==
  loadLog = <<"sent", "failed", "sent", "failed", "sent", "ok">>

\* C21: a load attempt ends as failed when the reply is an error, carries no
\* data or the messaging call throws; the third failure leaves the controller
\* ready (nothing in flight, nothing pending), failed attempts never write the
\* working list, no load request follows, and a valid new Add made after that
\* is appended.
C21_ExhaustedLoadLeavesReady ==
  [][/\ (loadPc = "await" /\ loadMsg.kind # "none" /\ loadMsg'.kind = "none"
          /\ (loadMsg.kind = "throw" \/ ~loadMsg.success \/ ~loadMsg.hasData))
        => /\ lastOp' = "load:failed"
           /\ userLinks' = userLinks /\ saveReqs' = saveReqs
           /\ loadPc' = IF Count(loadLog', "failed") = 3 THEN "exhausted" ELSE "sleep"
     /\ loadPc' = "exhausted"
        => /\ Count(loadLog', "sent") = 3 /\ Count(loadLog', "ok") = 0
           /\ loadMsg'.kind = "none"
     /\ loadPc = "exhausted" => (loadPc' = "exhausted" /\ loadLog' = loadLog)
     /\ (Count(loadLog', "ok") = 0 /\ userLinks = <<>> /\ lastOp' # "add:accepted")
        => userLinks' = <<>>
     /\ (loadPc = "exhausted" /\ handleAddLink /\ UrlParses(newLinkUrl)
          /\ Count(userLinks, newLinkUrl) = 0)
        => (userLinks' = Append(userLinks, newLinkUrl) /\ lastOp' = "add:accepted")]_vars

C21_Witness ==
  /\ loadPc = "exhausted" /\ lastOp = "add:accepted"
  /\ userLinks = <<StrX>>

(* ----------------------- storage service claims ------------------------ *)
IsLinksSave(i) == calls[i].type = "save-user-links"
IsLinksLoad(i) == calls[i].type = "load-user-links"
IsVisibilitySave(i) == calls[i].type = "save-sidebar-visibility"
IsVisibilityLoad(i) == calls[i].type = "load-sidebar-visibility"
CallIds == 1..Len(calls)
LogIds == 1..Len(svcLog)
Highest(S) == CHOOSE k \in S : \A m \in S : m <= k

\* positions in svcLog where a save-user-links wrote the list
LinksWrites == {k \in LogIds : svcLog[k].ev = "stored" /\ IsLinksSave(svcLog[k].call)}
\* positions in svcLog where a save-user-links returned {success: true}
LinksSavesDone ==
  {k \in LogIds : /\ svcLog[k].ev = "returned" /\ IsLinksSave(svcLog[k].call)
                  /\ calls[svcLog[k].call].reply.success}
PayloadAt(k) == calls[svcLog[k].call].data.items

\* C22: the stored list is always the whole payload of the save-user-links
\* that wrote last (the list left by earlier sessions when none has written);
\* saves return in the order they wrote, so once every save that wrote has
\* returned, the stored list is the payload of the save that returned last;
\* an empty array is accepted like any other array.
C22_LastWriteWins ==
  /\ IF LinksWrites = {}
       THEN linksItem \in InitialItems
       ELSE linksItem = [present |-> TRUE, value |-> PayloadAt(Highest(LinksWrites))]
  /\ (LinksSavesDone # {}
      /\ \A i \in CallIds : IsLinksSave(i) /\ ~calls[i].threw => calls[i].pc # "settled")
       => linksItem.value = PayloadAt(Highest(LinksSavesDone))
  /\ \A i \in CallIds :
       (IsLinksSave(i) /\ calls[i].data = JsArrayOf(<<>>) /\ calls[i].pc = "returned"
        /\ ~calls[i].threw)
         => calls[i].reply.success

\* two saves written in the order opposite to their arrival, the later
\* writer's empty payload emptying a list that was stored before
C22_Witness ==
  /\ Len(calls) = 2
  /\ calls[1].data = JsArrayOf(<<>>) /\ calls[2].data = JsArrayOf(<<StrY, StrX>>)
  /\ calls[1].pc = "returned" /\ calls[2].pc = "returned"
  /\ calls[1].reply.success /\ calls[2].reply.success
  /\ svcLog[1].call = 2
  /\ linksItem = [present |-> TRUE, value |-> <<>>]

\* the payload type the protocol declares for save-user-links: string[]
IsSequenceOfStrings(data) ==
  data.kind = "array" /\ \A k \in 1..Len(data.items) : data.items[k] # NonString

\* C23: a save-user-links whose payload is not a sequence of strings (absent,
\* not a sequence, or a sequence with a non-string element) never writes the
\* stored list and is answered {success: false, error}.
C23_NonStringPayloadRejected ==
  \A i \in CallIds :
    (IsLinksSave(i) /\ ~IsSequenceOfStrings(calls[i].data))
      => /\ \A k \in LogIds : ~(svcLog[k].ev = "stored" /\ svcLog[k].call = i)
         /\ calls[i].pc = "returned"
              => (~calls[i].reply.success /\ calls[i].reply.error # "")

\* the position in svcLog at which call i wrote its payload (0: it did not)
WrittenAt(i) ==
  IF \E k \in LogIds : svcLog[k].ev = "stored" /\ svcLog[k].call = i
    THEN CHOOSE k \in LogIds : svcLog[k].ev = "stored" /\ svcLog[k].call = i
    ELSE 0

\* C24: a save-user-links returns {success: true} only after its payload was
\* written to the store, and a load-user-links that reads the store after that
\* return answers with that payload or with the payload of a save that wrote
\* later.
C24_DurableBeforeResponse ==
  \A j \in LinksSavesDone :
    LET w == WrittenAt(svcLog[j].call) IN
      /\ w > 0 /\ w < j
      /\ \A k \in LogIds :
           (k > j /\ svcLog[k].ev = "read" /\ IsLinksLoad(svcLog[k].call)
            /\ calls[svcLog[k].call].pc = "returned")
             => /\ calls[svcLog[k].call].reply.success
                /\ \E m \in LinksWrites :
                     /\ m >= w /\ m < k
                     /\ calls[svcLog[k].call].reply.data = JsArrayOf(PayloadAt(m))

\* a save stored and answered, then a load that reads and returns its payload
C24_Witness ==
  /\ Len(svcLog) = 4
  /\ svcLog[1].ev = "stored" /\ svcLog[2].ev = "returned" /\ svcLog[3].ev = "read"
  /\ svcLog[4].ev = "returned"
  /\ IsLinksSave(1) /\ IsLinksLoad(2)
  /\ calls[1].data = JsArrayOf(<<StrY, StrX>>)
  /\ calls[2].reply = Success(JsArrayOf(<<StrY, StrX>>))

\* the calls a step starts or moves on
Touched(i) == i > Len(calls) \/ calls'[i] # calls[i]

\* C25: the getValue of a load-user-links reads the stored list as it is at
\* that moment, the empty sequence when the item was never written; unless
\* the read failed the handler returns {success: true, data} with what was
\* read; and no step of a load-user-links changes the stored list or the
\* stored visibility flag.
C25_LoadReturnsStoredList ==
  [][\A i \in 1..Len(calls') :
       (calls'[i].type = "load-user-links" /\ Touched(i))
         => /\ linksItem' = linksItem /\ visibilityItem' = visibilityItem
            /\ (calls'[i].pc = "settled" /\ ~calls'[i].threw)
                 => calls'[i].got =
                      JsArrayOf(IF linksItem.present THEN linksItem.value ELSE <<>>)
            /\ (calls'[i].pc = "returned" /\ ~calls'[i].threw)
                 => calls'[i].reply = Success(calls[i].got)]_vars

\* a load answered with the empty sequence from a store never written
C25_Witness ==
  /\ Len(calls) = 1 /\ IsLinksLoad(1) /\ calls[1].pc = "returned"
  /\ ~linksItem.present /\ calls[1].reply = Success(JsArrayOf(<<>>))

\* C26 as stated: a rejected backend access is answered {success: false, error},
\* changes neither storage item, and every request that has returned accessed
\* the backend exactly once.
C26_ExactlyOneAccess ==
  [][\A i \in 1..Len(calls') :
       /\ calls'[i].threw
            => /\ Touched(i) => (linksItem' = linksItem /\ visibilityItem' = visibilityItem)
               /\ calls'[i].pc = "returned"
                    => (~calls'[i].reply.success /\ calls'[i].reply.error # "")
       /\ calls'[i].pc = "returned" => calls'[i].accesses = 1]_vars

\* whether the handler's test of its payload lets the request reach the backend
ReachesBackend(c) ==
  CASE c.type = "save-user-links" -> c.data.kind = "array"
    [] c.type = "save-sidebar-visibility" -> c.data.kind = "boolean"
    [] OTHER -> TRUE

\* C26: a rejected backend access is answered {success: false, error} and
\* changes neither storage item; no request accesses the backend more than
\* once, a request that has returned accessed it once if its payload passed
\* the handler's test and not at all if the payload was rejected.
C26_AtMostOneAccess ==
  [][\A i \in 1..Len(calls') :
       /\ calls'[i].threw
            => /\ Touched(i) => (linksItem' = linksItem /\ visibilityItem' = visibilityItem)
               /\ calls'[i].pc = "returned"
                    => (~calls'[i].reply.success /\ calls'[i].reply.error # "")
       /\ calls'[i].accesses <= 1
       /\ calls'[i].pc = "returned"
            => calls'[i].accesses = (IF ReachesBackend(calls'[i]) THEN 1 ELSE 0)]_vars

\* a save whose write was rejected: answered with an error, list as before
C26_Witness ==
  /\ Len(calls) = 1 /\ IsLinksSave(1) /\ calls[1].data = JsArrayOf(<<StrX>>)
  /\ calls[1].threw /\ calls[1].pc = "returned" /\ calls[1].accesses = 1
  /\ calls[1].reply = Failure("<error.message>")
  /\ linksItem = [present |-> TRUE, value |-> <<StrX, StrY>>]

\* positions in svcLog where a save-sidebar-visibility wrote the flag
FlagWrites == {k \in LogIds : svcLog[k].ev = "stored" /\ IsVisibilitySave(svcLog[k].call)}

\* C28: the stored flag is the boolean of the save-sidebar-visibility that
\* wrote last and is unset while none has written; a load-sidebar-visibility
\* reads false from the unset flag and otherwise its value, and returns what
\* it read; a save-sidebar-visibility whose payload is not a boolean is
\* answered {success: false} and writes nothing; no step of a visibility
\* request changes the stored list and no step of a links request changes
\* the stored flag.
C28_VisibilityIndependent ==
  [][/\ visibilityItem' =
          IF FlagWrites' = {} THEN [present |-> FALSE, value |-> FALSE]
          ELSE [present |-> TRUE,
                value |-> calls'[svcLog'[Highest(FlagWrites')].call].data.flag]
     /\ \A i \in 1..Len(calls') :
          /\ (calls'[i].type = "load-sidebar-visibility" /\ Touched(i))
               => /\ visibilityItem' = visibilityItem /\ linksItem' = linksItem
                  /\ (calls'[i].pc = "settled" /\ ~calls'[i].threw)
                       => calls'[i].got =
                            JsBoolean(visibilityItem.present /\ visibilityItem.value)
                  /\ (calls'[i].pc = "returned" /\ ~calls'[i].threw)
                       => calls'[i].reply = Success(calls[i].got)
          /\ (calls'[i].type = "save-sidebar-visibility" /\ Touched(i))
               => /\ linksItem' = linksItem
                  /\ calls'[i].data.kind # "boolean"
                       => /\ visibilityItem' = visibilityItem
                          /\ calls'[i].pc = "returned" /\ ~calls'[i].reply.success
          /\ (calls'[i].type \in {"save-user-links", "load-user-links"} /\ Touched(i))
               => visibilityItem' = visibilityItem]_vars

\* the flag saved as true and then read back
C28_Witness ==
  /\ Len(calls) = 2 /\ IsVisibilitySave(1) /\ IsVisibilityLoad(2)
  /\ calls[1].reply.success /\ calls[1].pc = "returned"
  /\ calls[2].reply = Success(JsBoolean(TRUE))
  /\ linksItem = [present |-> TRUE, value |-> <<StrX>>]

(* ------------------------- controller claims --------------------------- *)
\* C27: the end of a save-user-links exchange, failed or not, changes nothing
\* of the controller but the exchange itself: the working list, the dialogs,
\* the drag state, the import state and the load position stay as they were,
\* so whatever the user could do before can still be done; and a step that
\* neither changes the working list nor takes in the load reply issues no
\* save request, so a save that failed is not sent again.
C27_FailedSaveHasNoEffect ==
  [][/\ Len(saveReqs') < Len(saveReqs)
          => /\ userLinks' = userLinks
             /\ UNCHANGED <<addVars, settingsVars, dragVars, deleteVars,
                            isSidebarHidden, loadVars, lastOp>>
     /\ (saveReqs' # saveReqs /\ userLinks' = userLinks /\ loadLog' = loadLog)
          => \E i \in 1..Len(saveReqs) : saveReqs' = RemoveAt(saveReqs, i)]_vars

\* both adds' saves failed (nothing was ever stored), the second add was
\* accepted after the first save had failed
C27_Witness ==
  /\ ~linksItem.present /\ ~savesInOrder /\ saveReqs = <<>>
  /\ userLinks = <<StrX, StrY>>
  /\ lastOp = "add:accepted"

\* C29: Export, Hide and Show change neither the working list nor the stored
\* list nor the stored flag and issue no save; the urls of the exported
\* document, as written to the file, are the working list, entry by entry in
\* order, and its version is "1.0".
C29_ExportAndHideReadOnly ==
  [][(handleExportData \/ handleHideSidebar \/ handleShowSidebar)
       => /\ userLinks' = userLinks /\ saveReqs' = saveReqs
          /\ linksItem' = linksItem /\ visibilityItem' = visibilityItem
          /\ lastOp' = "export"
               => /\ ExportDocument(userLinks).version = "1.0"
                  /\ JsonArray(ExportDocument(userLinks).urls) = userLinks]_vars

\* C30: the controller waits only between attempts: while it waits the last
\* attempt has failed and is not the third; the wait after the first attempt
\* is 500 ms and the wait after the second 750 ms.
C30_BackoffSchedule ==
  /\ loadPc = "sleep"
       => /\ loadLog # <<>> /\ loadLog[Len(loadLog)] = "failed"
          /\ Count(loadLog, "sent") = attempt
          /\ \/ attempt = 1 /\ delay = 500
             \/ attempt = 2 /\ delay = 750
  /\ Count(loadLog, "sent") = 3 => loadPc # "sleep"
  /\ (loadLog # <<>> /\ loadLog[Len(loadLog)] = "ok") => loadPc = "done"

C30_Witness == loadPc = "sleep" /\ Count(loadLog, "failed") = 2 /\ delay = 750

(* --------------------------- injection claims -------------------------- *)
\* C31: however often main() and initSidebar run on a page, there is never
\* more than one sidebar container and never more than one mounted Sidebar,
\* and a container is only created when document.body exists.
C31_InjectedOnce ==
  [][/\ page'.containers <= 1 /\ page'.roots <= 1
     /\ page'.containers > page.containers => page.body]_vars

\* main() has run twice: one container, one Sidebar, which has loaded
C31_Witness ==
  /\ page.runs = MaxRuns /\ page.containers = 1 /\ page.roots = 1
  /\ page.due = 0 /\ page.listeners = 0 /\ loadPc = "done"

(* --------------------------- lost-update claims ------------------------ *)
\* C32: in the add flow, where nothing is ever deleted, every URL of the
\* stored list is still in the stored list after every step.
C32_StoredOnlyRemovedByDelete ==
  [][\A k \in 1..Len(linksItem.value) :
       Count(linksItem'.value, linksItem.value[k]) > 0]_vars

\* C33: with this tab only mounting and loading, the stored list changes only
\* when the other tab saves: no save of this tab alters it, so what the other
\* tab added stays stored.
C33_LoadOnlyTabKeepsStore ==
  [][linksItem'.value # linksItem.value
       => /\ saveReqs' = saveReqs
          /\ Len(linksItem'.value) = Len(linksItem.value) + 1]_vars

\* C34: in the add flow, where nothing is deleted, a URL of the working list
\* is still in the working list after every step, whatever completes
\* meanwhile.
C34_NoLostUpdate ==
  [][\A k \in 1..Len(userLinks) : Count(userLinks', userLinks[k]) > 0]_vars

\* C35: every entry of the working list is a string that parses as an
\* absolute URL, and a drag in progress refers to an index the working list
\* has.
C35_EntriesValid ==
  /\ \A k \in 1..Len(userLinks) : userLinks[k] # Undefined /\ UrlParses(userLinks[k])
  /\ draggedIndex # Null => draggedIndex < Len(userLinks)

(* ----------------------------- import claims --------------------------- *)
\* C36: at most one of the import error and the import success message is
\* shown.
C36_MessagesExclusive == importError = "" \/ importSuccess = <<>>

\* C37: at most one import is in progress at a time: isImporting is set exactly
\* while an import is under way, no step replaces an import under way by
\* another one, and a drop that arrives while isImporting is set starts no
\* import and changes nothing but the drag highlight; and every import that
\* starts ends with isImporting cleared
C37_ImportProgress ==
  /\ [](isImporting <=> importJob.active)
  /\ [][/\ importJob.active /\ importJob'.active => importJob' = importJob
        /\ (isImporting /\ \E fs \in ProgressDrops : handleDrop(fs))
             => UNCHANGED <<importError, importSuccess, isImporting, importJob,
                            showSettingsModal, listVars, loadVars, addVars,
                            dragVars, deleteVars, isSidebarHidden, storeVars>>]_vars
  /\ (isImporting ~> ~isImporting)

C37_Witness ==
  /\ lastOp = "fileDrop:busy"
  /\ isImporting
  /\ ~isDragOver
  /\ importJob.file = UrlsFile(<<StrY>>)

====
